---- MODULE Spec2Model ----
(***************************************************************************)
(* State-machine model of the PopLogic game state (src/script.js): the     *)
(* single mutable gameState record, the persisted JSON document, the       *)
(* interval/timeout callbacks of the three levels and the DOM state the    *)
(* handlers read back (slider values, disabled flags, active screen).      *)
(*                                                                         *)
(* JavaScript numbers are modelled as integers; the three non-integer      *)
(* values the handlers can produce or read (undefined, NaN, JSON null)     *)
(* are the sentinels Undefined, NaN and Null below, with the coercions     *)
(* of +, > and || written out.                                             *)
(***************************************************************************)
EXTENDS Integers, Sequences, FiniteSets, TLC

\* ------------------------------------------------------------ JS values
Undefined == -1001
NaN == -1002
Null == -1003

\* ToNumber as applied by + and >.
ToNum(x) == IF x = Undefined THEN NaN ELSE IF x = Null THEN 0 ELSE x
IsNum(x) == x \notin {Undefined, NaN, Null}
\* a + b on numbers / undefined / null.
JsAdd(a, b) == IF ToNum(a) = NaN \/ ToNum(b) = NaN THEN NaN ELSE ToNum(a) + ToNum(b)
\* a > b: false whenever either side converts to NaN.
JsGt(a, b) == IF ToNum(a) = NaN \/ ToNum(b) = NaN THEN FALSE ELSE ToNum(a) > ToNum(b)
\* a >= b
JsGe(a, b) == IF ToNum(a) = NaN \/ ToNum(b) = NaN THEN FALSE ELSE ToNum(a) >= ToNum(b)
\* a || 0: undefined, null, NaN and 0 are falsy.
JsOr0(a) == IF a \in {Undefined, NaN, Null, 0} THEN 0 ELSE a
\* a === b on numbers: NaN is not equal to itself.
JsEq(a, b) == a # NaN /\ b # NaN /\ a = b
\* JSON.parse(JSON.stringify(x)) of a number-valued property: NaN is written
\* as null; a property holding undefined is dropped and reads back undefined.
JsonNum(x) == IF x = NaN THEN Null ELSE x
Max(a, b) == IF a >= b THEN a ELSE b

\* ------------------------------------------------------------ game config
Colours == {"red", "blue", "green", "yellow"}
ColourList == <<"red", "blue", "green", "yellow">>
\* BALLOON_CONFIG[c].range
RangeMin(c) == CASE c = "red" -> 6 [] c = "blue" -> 4 [] c = "green" -> 2 [] OTHER -> 1
RangeMax(c) == CASE c = "red" -> 12 [] c = "blue" -> 6 [] c = "green" -> 8 [] OTHER -> 20
\* getRandomInt(min, max): any integer of the inclusive range.
getRandomInt(lo, hi) == lo .. hi

L1_SEQUENCE == <<"red", "red", "red", "red", "blue", "blue", "blue", "blue",
                 "green", "red", "blue", "green", "red", "blue", "green">>

\* The number of balloons of one level-2 run. The source compares against the
\* literal 100 (script.js 693, 968, 1049); the model keeps the comparisons and
\* scales the run length so that whole runs are explored.
L2_TOTAL == 2
\* Level-3 production has no end; the model stops producing after this many.
MaxL3Processed == 2
\* Date.now() as a logical clock, saturating at MaxClock.
MaxClock == 4
\* Live timers of one kind the model lets accumulate (leaked handles).
MaxTimers == 1
\* Pending one-shot timeouts of one kind.
MaxPending == 1

\* Slider values written by resetL3Production (script.js 1447-1450); the markup
\* that sets the sliders' initial values is not part of src/.
DefaultStrategy == [c \in Colours |->
    CASE c = "red" -> 8 [] c = "blue" -> 5 [] c = "green" -> 6 [] OTHER -> 10]
\* Slider moves the model's user makes: <<colour, value>>.
SliderMoves == {<<"red", 9>>, <<"red", 8>>}

statsTemplate == [score |-> 0, pops |-> 0, count |-> 0, pumps |-> 0]
ZeroStats == [c \in Colours |-> statsTemplate]
\* strategy = {}: every colour reads undefined.
EmptyStrategy == [c \in Colours |-> Undefined]
NoCash == [c \in Colours |-> 0]

RECURSIVE SumOver(_, _)
SumOver(f, S) == IF S = {} THEN 0
                 ELSE LET c == CHOOSE x \in S : TRUE
                      IN JsAdd(f[c], SumOver(f, S \ {c}))
ScoreSum(stats) == SumOver([c \in Colours |-> stats[c].score], Colours)
CountSum(stats) == SumOver([c \in Colours |-> stats[c].count], Colours)
PopSum(stats) == SumOver([c \in Colours |-> stats[c].pops], Colours)

VARIABLES
    screen,          \* id of the active screen
    unlockedLevels,  \* gameState.unlockedLevels
    tutorial,        \* gameState.tutorial: step index per level
    l1, l2, l3,      \* gameState.l1 / l2 / l3
    dom,             \* slider values, slider disabled flag, l1 controls shown
    timers,          \* live interval/timeout callbacks and whether the handle
                     \* stored in gameState still names a live one
    stored,          \* localStorage['popLogicState']: <<>> or <<document>>
    now,             \* Date.now()
    cash,            \* ghost: cash-outs per level and colour since the stats
                     \* were last zeroed
    last             \* ghost: the handler that ran last and a value it saw

vars == <<screen, unlockedLevels, tutorial, l1, l2, l3, dom, timers, stored, now,
          cash, last>>

\* ------------------------------------------------------------ persistence
\* JSON.parse(JSON.stringify(.)) of the parts of gameState (saveGameState,
\* script.js 157-162): numbers survive, NaN becomes null.
JsonStats(stats) == [c \in Colours |-> [stats[c] EXCEPT !.score = JsonNum(@)]]
JsonRatio(r) == IF r[1] = NaN THEN <<Null, 1>> ELSE r
JsonRecord(r) == [r EXCEPT
    !.performance = [c \in Colours |-> [@[c] EXCEPT !.avgScore = JsonRatio(@)]],
    !.overallAvgScore = JsonRatio(@)]
JsonL1(a) == [a EXCEPT !.stats = JsonStats(@), !.currentPumps = JsonNum(@)]
JsonL2(b) == [b EXCEPT !.stats = JsonStats(@), !.totalEarned = JsonNum(@),
    !.pastStrategies = [i \in 1 .. Len(@) |-> JsonRecord(@[i])]]
JsonL3(c) == [c EXCEPT !.stats = JsonStats(@), !.totalScore = JsonNum(@)]
\* A property holding undefined is not written; here it stays Undefined.
JsonTutorial(t) == [level \in DOMAIN t |-> JsonNum(t[level])]
\* The value saveGameState leaves in storage for the given gameState.
saveGameStateWith(t, u, a, b, c) ==
    <<[unlockedLevels |-> u, tutorial |-> JsonTutorial(t),
       l1 |-> JsonL1(a), l2 |-> JsonL2(b), l3 |-> JsonL3(c)]>>
\* saveGameState in a handler that leaves gameState.tutorial alone.
saveGameState(u, a, b, c) == saveGameStateWith(tutorial, u, a, b, c)

\* getDefaultGameState() followed by initGame()'s resetStats of every level
\* (stats is {} in the default state, so each level is reset) and the
\* isRunning = false assignments.
\* tutorial: { l1: 0, l2: 0 }; there is no l3 property.
DefaultTutorial == [l1 |-> 0, l2 |-> 0, l3 |-> Undefined]
DefaultL1 == [stats |-> ZeroStats, balloonIndex |-> 0, history |-> <<>>,
              isPopping |-> FALSE, bestScore |-> 0,
              currentBalloon |-> [type |-> "none", maxPumps |-> Undefined],
              currentPumps |-> Undefined]
DefaultL2 == [stats |-> ZeroStats, processedCount |-> 0, strategy |-> EmptyStrategy,
              pastStrategies |-> <<>>, isRunning |-> FALSE, totalEarned |-> Undefined]
DefaultL3 == [stats |-> ZeroStats, totalScore |-> 0, processedSinceChartUpdate |-> 0,
              processedCount |-> Undefined, temperature |-> 20,
              strategy |-> EmptyStrategy, isRunning |-> FALSE]
NoTimers == [l2 |-> 0, l2h |-> FALSE, l3 |-> 0, l3h |-> FALSE,
             temp |-> 0, temph |-> FALSE, l1pop |-> 0, l2end |-> 0]
NoCashAll == [l1 |-> NoCash, l2 |-> NoCash, l3 |-> NoCash]

\* The view as the page's markup gives it.
InitialDom == [l2Slider |-> DefaultStrategy, l3Slider |-> DefaultStrategy,
               l2Disabled |-> FALSE, l1Controls |-> TRUE, l1NewBest |-> FALSE]

Init ==
    /\ screen = "main-menu"
    /\ unlockedLevels = 1
    /\ tutorial = DefaultTutorial
    /\ l1 = DefaultL1
    /\ l2 = DefaultL2
    /\ l3 = DefaultL3
    /\ dom = InitialDom
    /\ timers = NoTimers
    /\ stored = <<>>
    /\ now = 0
    /\ cash = NoCashAll
    /\ last = [op |-> "init", k |-> 0]

LevelScreens == {"level-1", "level-2", "level-3"}

\* Date.now() at the next save.
Clock == IF now < MaxClock THEN now + 1 ELSE MaxClock

\* ------------------------------------------------------------ navigation
\* homeBtn click: showScreen('main-menu') and nothing else.
HomeBtn ==
    /\ screen \in LevelScreens
    /\ screen' = "main-menu"
    /\ UNCHANGED <<unlockedLevels, l1, l2, l3, dom, timers, stored, now, cash, last>>
    /\ UNCHANGED tutorial

\* startGameBtn click: goToLevelSelect.
StartGame ==
    /\ screen = "main-menu"
    /\ screen' = "level-select"
    /\ UNCHANGED <<unlockedLevels, l1, l2, l3, dom, timers, stored, now, cash, last>>
    /\ UNCHANGED tutorial

\* resetProgressBtn click: resetAllProgress = removeItem, initGame,
\* goToLevelSelect. The new gameState object holds no timer handles; the
\* timers themselves are not cleared.
\* Ghost: how many of unlockedLevels, l1.balloonIndex, l2.processedCount,
\* l3.temperature and the three levels' stats differ from their defaults.
Dirt ==
    LET d(b) == IF b THEN 1 ELSE 0
    IN d(unlockedLevels # 1) + d(l1.balloonIndex # 0) + d(l2.processedCount # 0)
       + d(l3.temperature # 20) + d(l1.stats # ZeroStats)
       + d(l2.stats # ZeroStats) + d(l3.stats # ZeroStats)
resetAllTimers(t) == [t EXCEPT !.l2h = FALSE, !.l3h = FALSE, !.temph = FALSE]
\* Variant of initGame that keeps the gameState in memory.
keepGameState(doc) ==
    [threw |-> FALSE, unlockedLevels |-> unlockedLevels, tutorial |-> tutorial,
     l1 |-> l1, l2 |-> l2, l3 |-> l3]

\* Objects parsed from a document may lack properties: Has tells whether a
\* property is there, Get reads it (undefined when it is not), With assigns it.
Has(r, f) == f \in DOMAIN r
Get(r, f) == IF Has(r, f) THEN r[f] ELSE Undefined
With(r, f, v) == [x \in DOMAIN r \cup {f} |-> IF x = f THEN v ELSE r[x]]
\* resetStats(level) on the level object r (script.js 187-209).
resetStats(level, r) ==
    LET z == With(r, "stats", ZeroStats)
    IN CASE level = "l1" ->
              With(With(With(z, "history", <<>>), "balloonIndex", 0),
                   "isPopping", FALSE)
         [] level = "l2" -> With(With(z, "processedCount", 0), "strategy", EmptyStrategy)
         [] level = "l3" ->
              With(With(With(With(z, "totalScore", 0), "processedSinceChartUpdate", 0),
                        "temperature", 20), "strategy", EmptyStrategy)
\* loadGameState for a stored document g (script.js 166-170). Reading
\* gameState.l1.bestScore or gameState.l2.pastStrategies of a document without
\* l1 or l2 throws a TypeError; threw tells so, and g is gameState as the
\* exception leaves it.
loadGameState(g) ==
    LET g1 == IF Has(g, "tutorial") THEN g ELSE With(g, "tutorial", DefaultTutorial)
        g2 == With(g1, "l1", With(g1.l1, "bestScore", JsOr0(Get(g1.l1, "bestScore"))))
        g3 == IF Has(g2.l2, "pastStrategies") THEN g2
              ELSE With(g2, "l2", With(g2.l2, "pastStrategies", <<>>))
    IN IF ~Has(g1, "l1") THEN [threw |-> TRUE, g |-> g1]
       ELSE IF ~Has(g2, "l2") THEN [threw |-> TRUE, g |-> g2]
       ELSE [threw |-> FALSE, g |-> g3]
\* The forEach of initGame (script.js 178-182) from level on: a level without
\* stats is reset; resetStats of a level that is not there throws.
RECURSIVE resetMissing(_, _)
resetMissing(r, levels) ==
    IF levels = <<>> \/ r.threw THEN r
    ELSE LET level == Head(levels)
         IN IF ~Has(r.g, level) THEN [r EXCEPT !.threw = TRUE]
            ELSE IF ~Has(r.g[level], "stats")
                 THEN resetMissing([r EXCEPT !.g = With(@, level, resetStats(level, @[level]))],
                                   Tail(levels))
                 ELSE resetMissing(r, Tail(levels))
\* initGame (script.js 176-185) for the storage content doc: loadGameState
\* parses the document, or builds the defaults when there is none; levels
\* without stats are reset; isRunning is cleared. The result holds gameState
\* (undefined for what is not there) and whether initGame threw.
initGame(doc) ==
    IF doc = <<>>
    THEN [threw |-> FALSE, unlockedLevels |-> 1, tutorial |-> DefaultTutorial,
          l1 |-> DefaultL1, l2 |-> DefaultL2, l3 |-> DefaultL3]
    ELSE LET r == resetMissing(loadGameState(doc[1]), <<"l1", "l2", "l3">>)
             stop(level) == IF r.threw \/ ~Has(r.g, level) THEN Get(r.g, level)
                            ELSE With(r.g[level], "isRunning", FALSE)
         IN [threw |-> r.threw,
             unlockedLevels |-> Get(r.g, "unlockedLevels"),
             tutorial |-> Get(r.g, "tutorial"),
             l1 |-> Get(r.g, "l1"), l2 |-> stop("l2"), l3 |-> stop("l3")]
resetAllProgress ==
    /\ screen \in {"main-menu", "level-select"}
    /\ screen' = "level-select"
    /\ stored' = <<>>
    /\ unlockedLevels' = initGame(stored').unlockedLevels
    /\ tutorial' = initGame(stored').tutorial
    /\ l1' = initGame(stored').l1
    /\ l2' = initGame(stored').l2
    /\ l3' = initGame(stored').l3
    /\ timers' = resetAllTimers(timers)
    /\ cash' = NoCashAll
    /\ last' = [op |-> "resetAllProgress", k |-> Dirt]
    /\ UNCHANGED <<dom, now>>

\* Lengths of L1_TUTORIAL_STEPS, L2_TUTORIAL_STEPS and L3_TUTORIAL_STEPS.
TutorialSteps == [l1 |-> 7, l2 |-> 4, l3 |-> 7]
\* 'l' + activeScreenId.slice(-1)
levelKey(activeScreenId) ==
    CASE activeScreenId = "level-1" -> "l1"
      [] activeScreenId = "level-2" -> "l2"
      [] activeScreenId = "level-3" -> "l3"
\* showTutorialStep displays the overlay, whose buttons are next, previous and
\* skip, unless stepIndex >= steps.length (script.js 320-326). An undefined
\* index passes that test: the overlay is displayed before steps[undefined]
\* fails.
overlayShown(t, level) == ~JsGe(t[level], TutorialSteps[level])

\* helpBtn click on a level screen (script.js 1481-1486): the level's step
\* index is set to 0, also for l3, and nothing is saved.
Help ==
    /\ screen \in LevelScreens
    /\ tutorial' = [tutorial EXCEPT ![levelKey(screen)] = 0]
    /\ last' = [op |-> "help", k |-> 0]
    /\ UNCHANGED <<screen, unlockedLevels, l1, l2, l3, dom, timers, stored, now, cash>>

\* advanceTutorial (script.js 397-402): the index moves by direction, not
\* below 0.
advanceTutorial(t, level, direction) ==
    LET n == JsAdd(t[level], direction)
    IN [t EXCEPT ![level] = IF IsNum(n) /\ n < 0 THEN 0 ELSE n]

\* tutorialNextBtn / tutorialPrevBtn click (script.js 1536-1549). The previous
\* button is hidden at step 0.
TutorialStep ==
    /\ screen \in LevelScreens
    /\ overlayShown(tutorial, levelKey(screen))
    /\ \E direction \in {1, -1} :
           /\ direction = -1 => tutorial[levelKey(screen)] # 0
           /\ tutorial' = advanceTutorial(tutorial, levelKey(screen), direction)
           /\ last' = [op |-> "advanceTutorial", k |-> direction]
    /\ stored' = saveGameStateWith(tutorial', unlockedLevels, l1, l2, l3)
    /\ UNCHANGED <<screen, unlockedLevels, l1, l2, l3, dom, timers, now, cash>>

\* skipTutorialBtn click (script.js 404-416).
skipTutorial ==
    /\ screen \in LevelScreens
    /\ overlayShown(tutorial, levelKey(screen))
    /\ tutorial' = [tutorial EXCEPT ![levelKey(screen)] = TutorialSteps[levelKey(screen)]]
    /\ stored' = saveGameStateWith(tutorial', unlockedLevels, l1, l2, l3)
    /\ last' = [op |-> "skipTutorial", k |-> 0]
    /\ UNCHANGED <<screen, unlockedLevels, l1, l2, l3, dom, timers, now, cash>>

\* The page is reloaded, at most M times: every timer of the old page is gone,
\* the view is the markup's again, and initGame() (script.js 1576-1578) builds
\* gameState from the stored document. The cash-out ghost is kept; it stays
\* exact for level 1, whose handlers save after every resolution.
Reload(M) ==
    /\ now < M
    /\ now' = Clock
    /\ screen' = "main-menu"
    /\ unlockedLevels' = initGame(stored).unlockedLevels
    /\ tutorial' = initGame(stored).tutorial
    /\ l1' = initGame(stored).l1
    /\ l2' = initGame(stored).l2
    /\ l3' = initGame(stored).l3
    /\ dom' = InitialDom
    /\ timers' = NoTimers
    /\ last' = [op |-> "reload", k |-> IF initGame(stored).threw THEN 1 ELSE 0]
    /\ UNCHANGED <<stored, cash>>

\* ------------------------------------------------------------ level 2
\* a / b as the pair <<a, b>> (the source divides floating-point numbers);
\* 0 when the count is 0.
Ratio(n, d) == IF d > 0 THEN (IF IsNum(n) THEN <<n, d>> ELSE <<NaN, 1>>) ELSE <<0, 1>>

\* Variant of updateL2Strategy for a newest record that shares the strategy
\* object of gameState.l2.
updateL2StrategyShared(b, sliders) ==
    [b EXCEPT !.strategy = sliders,
              !.pastStrategies = [i \in 1 .. Len(@) |->
                  IF i = 1 THEN [@[i] EXCEPT !.strategy = sliders] ELSE @[i]]]
\* updateL2Strategy: every colour's strategy is read from its slider.
updateL2Strategy(b, sliders) == [b EXCEPT !.strategy = sliders]

\* Variant of resetL2Simulation that keeps the counters of the paused run.
keepL2Simulation(b) == b
\* resetL2Simulation (script.js 779-805).
resetL2Simulation(b) ==
    [b EXCEPT !.processedCount = 0, !.totalEarned = 0, !.stats = ZeroStats]

\* Variant of strategyRecord that snapshots nothing of the performance.
blankRecord(b, t) ==
    [timestamp |-> t,
     strategy |-> b.strategy,
     performance |-> [c \in Colours |->
         [avgScore |-> <<0, 1>>, popRate |-> <<0, 1>>, count |-> 0]],
     overallPopRate |-> <<0, 1>>,
     overallAvgScore |-> <<0, 1>>,
     totalProcessed |-> 0]
\* The record saveL2Strategy builds (script.js 809-841) at time t.
strategyRecord(b, t) ==
    [timestamp |-> t,
     strategy |-> b.strategy,
     performance |-> [c \in Colours |->
         [avgScore |-> Ratio(b.stats[c].score, b.stats[c].count),
          popRate |-> Ratio(b.stats[c].pops * 100, b.stats[c].count),
          count |-> b.stats[c].count]],
     overallPopRate |-> Ratio(PopSum(b.stats) * 100, CountSum(b.stats)),
     overallAvgScore |-> Ratio(ScoreSum(b.stats), CountSum(b.stats)),
     totalProcessed |-> b.processedCount]

\* Variant of unshiftStrategy that appends and drops from the front.
pushStrategy(list, rec) ==
    LET grown == list \o <<rec>>
    IN IF Len(grown) > 3 THEN SubSeq(grown, 2, 4) ELSE grown
\* pastStrategies.unshift(record), then slice(0, 3) when longer than 3
\* (script.js 847-850).
unshiftStrategy(list, rec) ==
    LET grown == <<rec>> \o list
    IN IF Len(grown) > 3 THEN SubSeq(grown, 1, 3) ELSE grown

\* saveL2Strategy's change to gameState.l2; its saveGameState is applied by
\* the calling action, which knows the rest of gameState.
saveL2Strategy(b, t) ==
    [b EXCEPT !.pastStrategies = unshiftStrategy(@, strategyRecord(b, t))]

\* Variant of resolveL2 that counts only cashed-out balloons in stats[type].
resolveL2CashOnly(st, type, maxPumps) ==
    LET b == st.b
        strategyPumps == b.strategy[type]
        popped == JsGt(strategyPumps, maxPumps)
        scoreVal == IF popped THEN 0 ELSE strategyPumps
    IN [b |-> [b EXCEPT
                !.stats[type].pops = IF popped THEN @ + 1 ELSE @,
                !.stats[type].score = IF popped THEN @ ELSE JsAdd(@, scoreVal),
                !.stats[type].count = IF popped THEN @ ELSE @ + 1,
                !.processedCount = @ + 1,
                !.totalEarned = JsAdd(JsOr0(@), scoreVal)],
        g |-> IF popped THEN st.g ELSE [st.g EXCEPT ![type] = @ + 1]]
\* One balloon of the interval callback of level 2 (script.js 1059-1075): the
\* state of l2 and of the cash-out ghost after resolving a balloon of colour
\* type whose drawn threshold is maxPumps.
resolveL2(st, type, maxPumps) ==
    LET b == st.b
        strategyPumps == b.strategy[type]
        popped == JsGt(strategyPumps, maxPumps)
        scoreVal == IF popped THEN 0 ELSE strategyPumps
    IN [b |-> [b EXCEPT
                !.stats[type].pops = IF popped THEN @ + 1 ELSE @,
                !.stats[type].score = IF popped THEN @ ELSE JsAdd(@, scoreVal),
                !.stats[type].count = @ + 1,
                !.processedCount = @ + 1,
                !.totalEarned = JsAdd(JsOr0(@), scoreVal)],
        g |-> IF popped THEN st.g ELSE [st.g EXCEPT ![type] = @ + 1]]

\* Variant of skipResolve that leaves totalEarned alone.
skipResolveUnpaid(st, color, maxPumps) ==
    LET b == st.b
        strategyPumps == b.strategy[color]
        popped == JsGt(strategyPumps, maxPumps)
    IN [b |-> [b EXCEPT
                !.stats[color].pops = IF popped THEN @ + 1 ELSE @,
                !.stats[color].score = IF popped THEN @ ELSE JsAdd(@, strategyPumps),
                !.stats[color].count = @ + 1,
                !.processedCount = @ + 1],
        g |-> IF popped THEN st.g ELSE [st.g EXCEPT ![color] = @ + 1]]
\* One iteration of the for loop of skipL2ToEnd (script.js 970-989), statement
\* by statement.
skipResolve(st, color, maxPumps) ==
    LET b0 == st.b
        strategyPumps == b0.strategy[color]
        popped == JsGt(strategyPumps, maxPumps)
        scoreVal == IF popped THEN 0 ELSE strategyPumps
        b1 == IF popped
              THEN [b0 EXCEPT !.stats[color].pops = @ + 1]
              ELSE [b0 EXCEPT !.stats[color].score = JsAdd(@, scoreVal)]
        b2 == [b1 EXCEPT !.stats[color].count = @ + 1]
        b3 == [b2 EXCEPT !.processedCount = @ + 1]
        b4 == [b3 EXCEPT !.totalEarned = JsAdd(JsOr0(@), scoreVal)]
    IN [b |-> b4,
        g |-> IF popped THEN st.g ELSE [st.g EXCEPT ![color] = @ + 1]]

\* The for loop of skipL2ToEnd: every state n further balloons can lead to,
\* over all draws of colours from D.
RECURSIVE skipLoop(_, _, _)
skipLoop(S, n, D) ==
    IF n <= 0 THEN S
    ELSE skipLoop(UNION {{skipResolve(st, type, maxPumps) :
                             maxPumps \in getRandomInt(RangeMin(type), RangeMax(type))} :
                         st \in S, type \in D},
                  n - 1, D)

\* clearInterval(gameState.l2.interval): ends the timer the handle names, if
\* that timer is still live.
clearL2Interval(t) == IF t.l2h THEN [t EXCEPT !.l2 = @ - 1, !.l2h = FALSE] ELSE t

\* One firing of a level-2 interval callback (script.js 1047-1098). At 100
\* processed balloons it calls endLevel2(): clearInterval of the stored
\* handle, isRunning = false, unlock level 3, saveGameState, sliders enabled.
L2Tick(D) ==
    /\ timers.l2 > 0
    /\ IF JsGe(l2.processedCount, L2_TOTAL)
       THEN /\ timers' = clearL2Interval(timers)
            /\ l2' = [l2 EXCEPT !.isRunning = FALSE]
            /\ unlockedLevels' = Max(unlockedLevels, 3)
            /\ stored' = saveGameState(unlockedLevels', l1, l2', l3)
            /\ dom' = [dom EXCEPT !.l2Disabled = FALSE]
            /\ last' = [op |-> "endLevel2", k |-> 0]
            /\ UNCHANGED <<cash>>
       ELSE /\ \E type \in D :
                 \E maxPumps \in getRandomInt(RangeMin(type), RangeMax(type)) :
                     LET r == resolveL2([b |-> l2, g |-> cash.l2], type, maxPumps)
                     IN /\ l2' = r.b
                        /\ cash' = [cash EXCEPT !.l2 = r.g]
            /\ last' = [op |-> "l2Tick", k |-> 0]
            /\ UNCHANGED <<unlockedLevels, stored, dom, timers>>
    /\ UNCHANGED <<screen, l1, l3, now>>
    /\ UNCHANGED tutorial

\* l2StartStopBtn click while stopped (script.js 1005-1018): isRunning = true,
\* updateL2Strategy, sliders disabled, resetL2Simulation, runL2Simulation.
L2Start ==
    /\ screen = "level-2"
    /\ ~l2.isRunning
    /\ timers.l2 < MaxTimers
    /\ l2' = resetL2Simulation(updateL2Strategy([l2 EXCEPT !.isRunning = TRUE],
                                                dom.l2Slider))
    /\ dom' = [dom EXCEPT !.l2Disabled = TRUE]
    /\ timers' = [timers EXCEPT !.l2 = @ + 1, !.l2h = TRUE]
    /\ cash' = [cash EXCEPT !.l2 = NoCash]
    /\ last' = [op |-> "l2Start", k |-> IF last.op = "l2Pause" THEN 1 ELSE 0]
    /\ UNCHANGED <<screen, unlockedLevels, l1, l3, stored, now>>
    /\ UNCHANGED tutorial

\* l2StartStopBtn click while running (script.js 1019-1028): isRunning = false,
\* sliders enabled, saveL2Strategy, clearInterval. M is the clock value from
\* which the model's user no longer pauses or skips.
L2Pause(M) ==
    /\ screen = "level-2"
    /\ l2.isRunning
    /\ now < M
    /\ now' = Clock
    /\ l2' = saveL2Strategy([l2 EXCEPT !.isRunning = FALSE], now')
    /\ stored' = saveGameState(unlockedLevels, l1, l2', l3)
    /\ dom' = [dom EXCEPT !.l2Disabled = FALSE]
    /\ timers' = clearL2Interval(timers)
    /\ last' = [op |-> "l2Pause", k |-> 0]
    /\ UNCHANGED <<screen, unlockedLevels, l1, l3, cash>>
    /\ UNCHANGED tutorial

\* l2-skip-to-end-btn click (script.js 961-1003): returns at once unless
\* isRunning; otherwise clears the interval, resolves the remaining balloons,
\* saves the strategy record and schedules endLevel2(true).
skipL2ToEnd(D, M) ==
    /\ screen = "level-2"
    /\ l2.isRunning
    /\ now < M
    /\ timers.l2end < MaxPending
    /\ now' = Clock
    /\ \E r \in skipLoop({[b |-> l2, g |-> cash.l2]}, L2_TOTAL - l2.processedCount, D) :
           /\ l2' = saveL2Strategy(r.b, now')
           /\ cash' = [cash EXCEPT !.l2 = r.g]
    /\ stored' = saveGameState(unlockedLevels, l1, l2', l3)
    /\ timers' = [clearL2Interval(timers) EXCEPT !.l2end = @ + 1]
    /\ last' = [op |-> "skipL2ToEnd", k |-> l2.processedCount]
    /\ UNCHANGED <<screen, unlockedLevels, l1, l3, dom>>
    /\ UNCHANGED tutorial

\* The timeout skipL2ToEnd sets: endLevel2(true), which only touches the view
\* (sliders enabled, completion modal shown).
L2SkipEnd ==
    /\ timers.l2end > 0
    /\ timers' = [timers EXCEPT !.l2end = @ - 1]
    /\ dom' = [dom EXCEPT !.l2Disabled = FALSE]
    /\ last' = [op |-> "endLevel2Review", k |-> 0]
    /\ UNCHANGED <<screen, unlockedLevels, l1, l2, l3, stored, now, cash>>
    /\ UNCHANGED tutorial

\* input event of a level-2 slider (script.js 758): the strategy follows the
\* sliders only while no run is in progress. A disabled slider takes no input.
L2Slider ==
    /\ screen = "level-2"
    /\ ~dom.l2Disabled
    /\ \E mv \in SliderMoves :
           /\ dom.l2Slider[mv[1]] # mv[2]
           /\ dom' = [dom EXCEPT !.l2Slider[mv[1]] = mv[2]]
           /\ l2' = IF l2.isRunning THEN l2 ELSE updateL2Strategy(l2, dom'.l2Slider)
    /\ last' = [op |-> "l2Slider", k |-> 0]
    /\ UNCHANGED <<screen, unlockedLevels, l1, l3, timers, stored, now, cash>>
    /\ UNCHANGED tutorial

\* deleteL2Strategy(index), index counted from 0 (script.js 947-953).
deleteL2Strategy(list, index) ==
    IF index >= 0 /\ index < Len(list)
    THEN SubSeq(list, 1, index) \o SubSeq(list, index + 2, Len(list))
    ELSE list

L2Delete ==
    /\ screen = "level-2"
    /\ \E index \in 0 .. Len(l2.pastStrategies) - 1 :
           l2' = [l2 EXCEPT !.pastStrategies = deleteL2Strategy(@, index)]
    /\ stored' = saveGameState(unlockedLevels, l1, l2', l3)
    /\ last' = [op |-> "deleteL2Strategy", k |-> 0]
    /\ UNCHANGED <<screen, unlockedLevels, l1, l3, dom, timers, now, cash>>
    /\ UNCHANGED tutorial

\* clearAllL2Strategies (script.js 955-959).
clearAllL2Strategies(list) == <<>>

L2ClearAll ==
    /\ screen = "level-2"
    /\ l2' = [l2 EXCEPT !.pastStrategies = clearAllL2Strategies(@)]
    /\ stored' = saveGameState(unlockedLevels, l1, l2', l3)
    /\ last' = [op |-> "clearAllL2Strategies", k |-> 0]
    /\ UNCHANGED <<screen, unlockedLevels, l1, l3, dom, timers, now, cash>>
    /\ UNCHANGED tutorial

\* selectL2Btn click: startLevel2 (script.js 691-701). With 100 balloons
\* processed it shows the review (endLevel2(true)), which enables the sliders.
SelectL2 ==
    /\ screen = "level-select"
    /\ screen' = "level-2"
    /\ dom' = IF JsGe(l2.processedCount, L2_TOTAL)
              THEN [dom EXCEPT !.l2Disabled = FALSE] ELSE dom
    /\ UNCHANGED <<unlockedLevels, l1, l2, l3, timers, stored, now, cash, last>>
    /\ UNCHANGED tutorial

\* ------------------------------------------------------------ level 3
\* Math.round(a / b) for b > 0: the nearest integer, halves rounded up.
RoundDiv(a, b) == (2 * a + b) \div (2 * b)

\* Variant of percentChange that measures how far below 20 the temperature is.
percentChangeCold(temperature) == RoundDiv(20 - temperature, 2)
\* The temperature-skewed range of runL3Simulation (script.js 1376-1380).
percentChange(temperature) == RoundDiv(temperature - 20, 2)
effMin(type, temperature) ==
    Max(1, RoundDiv(RangeMin(type) * (100 - percentChange(temperature)), 100))
\* Variant of effMax that scales the lower end of the configured range.
effMaxLow(type, temperature) ==
    Max(1, RoundDiv(RangeMin(type) * (100 - percentChange(temperature)), 100))
effMax(type, temperature) ==
    Max(effMin(type, temperature) + 1,
        RoundDiv(RangeMax(type) * (100 - percentChange(temperature)), 100))

\* updateL3Strategy: every colour's strategy is read from its slider.
updateL3Strategy(c, sliders) == [c EXCEPT !.strategy = sliders]

\* Variant of resolveL3 that pops a balloon pumped up to its threshold.
resolveL3Strict(st, type, maxPumps) ==
    LET c == st.c
        strategyPumps == c.strategy[type]
        popped == JsGe(strategyPumps, maxPumps)
        scoreVal == IF popped THEN 0 ELSE strategyPumps
    IN [c |-> [c EXCEPT
                !.stats[type].pops = IF popped THEN @ + 1 ELSE @,
                !.stats[type].score = IF popped THEN @ ELSE JsAdd(@, scoreVal),
                !.totalScore = IF popped THEN @ ELSE JsAdd(@, scoreVal),
                !.stats[type].count = @ + 1,
                !.processedCount = JsOr0(@) + 1],
        g |-> IF popped THEN st.g ELSE [st.g EXCEPT ![type] = @ + 1]]
\* One balloon of level 3 (script.js 1375-1385).
resolveL3(st, type, maxPumps) ==
    LET c == st.c
        strategyPumps == c.strategy[type]
        popped == JsGt(strategyPumps, maxPumps)
        scoreVal == IF popped THEN 0 ELSE strategyPumps
    IN [c |-> [c EXCEPT
                !.stats[type].pops = IF popped THEN @ + 1 ELSE @,
                !.stats[type].score = IF popped THEN @ ELSE JsAdd(@, scoreVal),
                !.totalScore = IF popped THEN @ ELSE JsAdd(@, scoreVal),
                !.stats[type].count = @ + 1,
                !.processedCount = JsOr0(@) + 1],
        g |-> IF popped THEN st.g ELSE [st.g EXCEPT ![type] = @ + 1]]

\* Variant of clampTemp that only caps the temperature from above.
capTemp(t) == IF t > 40 THEN 40 ELSE t
\* updateTemp's change of the temperature (script.js 1339-1344).
clampTemp(t) == IF t > 40 THEN 40 ELSE IF t < 0 THEN 0 ELSE t
\* Variant of updateTemp that applies the drawn change twice.
updateTempTwice(temperature, change) == clampTemp(temperature + 2 * change)
updateTemp(temperature, change) == clampTemp(temperature + change)
\* 1 when one of the two clamping assignments (script.js 1343-1344) ran.
clamped(temperature, change) ==
    IF temperature + change > 40 \/ temperature + change < 0 THEN 1 ELSE 0
\* getRandomInt(-5, 5)
TempChanges == getRandomInt(-5, 5)

clearL3Interval(t) == IF t.l3h THEN [t EXCEPT !.l3 = @ - 1, !.l3h = FALSE] ELSE t
clearL3Temp(t) == IF t.temph THEN [t EXCEPT !.temp = @ - 1, !.temph = FALSE] ELSE t

\* selectL3Btn click: startLevel3 (script.js 1132-1139).
SelectL3 ==
    /\ screen = "level-select"
    /\ screen' = "level-3"
    /\ l3' = updateL3Strategy(l3, dom.l3Slider)
    /\ last' = [op |-> "startLevel3", k |-> 0]
    /\ UNCHANGED <<unlockedLevels, l1, l2, dom, timers, stored, now, cash>>
    /\ UNCHANGED tutorial

\* input event of a level-3 slider (script.js 1141).
L3Slider ==
    /\ screen = "level-3"
    /\ \E mv \in SliderMoves :
           /\ dom.l3Slider[mv[1]] # mv[2]
           /\ dom' = [dom EXCEPT !.l3Slider[mv[1]] = mv[2]]
           /\ l3' = updateL3Strategy(l3, dom'.l3Slider)
    /\ last' = [op |-> "l3Slider", k |-> 0]
    /\ UNCHANGED <<screen, unlockedLevels, l1, l2, timers, stored, now, cash>>
    /\ UNCHANGED tutorial

\* Variant of insightBand without the test against 20.
insightBandWarm(temperature) ==
    IF temperature > 35 THEN 1
    ELSE IF temperature > 30 THEN 2
    ELSE IF temperature > 25 THEN 3
    ELSE IF temperature < 5 THEN 4
    ELSE IF temperature < 10 THEN 5
    ELSE IF temperature < 15 THEN 6
    ELSE 8
\* The insight updateTemp emits (script.js 1348-1364), as the position of its
\* setInsight call in the if-chain.
insightBand(temperature) ==
    IF temperature > 35 THEN 1
    ELSE IF temperature > 30 THEN 2
    ELSE IF temperature > 25 THEN 3
    ELSE IF temperature < 5 THEN 4
    ELSE IF temperature < 10 THEN 5
    ELSE IF temperature < 15 THEN 6
    ELSE IF temperature < 20 THEN 7
    ELSE 8

\* l3StartStopBtn click while stopped (script.js 1144-1151): runL3Simulation
\* sets the production interval; runL3TempChanges runs updateTemp at once and
\* arms the next drift timeout.
L3Start(C) ==
    /\ screen = "level-3"
    /\ ~l3.isRunning
    /\ timers.l3 < MaxTimers
    /\ timers.temp < MaxTimers
    /\ \E change \in C :
           /\ l3' = [l3 EXCEPT !.isRunning = TRUE,
                               !.temperature = updateTemp(@, change)]
           /\ last' = [op |-> "l3Start", k |-> clamped(l3.temperature, change),
                        insight |-> insightBand(updateTemp(l3.temperature, change))]
    /\ timers' = [timers EXCEPT !.l3 = @ + 1, !.l3h = TRUE,
                                !.temp = @ + 1, !.temph = TRUE]
    /\ UNCHANGED <<screen, unlockedLevels, l1, l2, dom, stored, now, cash>>
    /\ UNCHANGED tutorial

\* l3StartStopBtn click while running (script.js 1152-1159).
L3Pause ==
    /\ screen = "level-3"
    /\ l3.isRunning
    /\ l3' = [l3 EXCEPT !.isRunning = FALSE]
    /\ timers' = clearL3Temp(clearL3Interval(timers))
    /\ last' = [op |-> "l3Pause", k |-> 0]
    /\ UNCHANGED <<screen, unlockedLevels, l1, l2, dom, stored, now, cash>>
    /\ UNCHANGED tutorial

\* One firing of a level-3 production interval (script.js 1372-1398).
L3Tick(D) ==
    /\ timers.l3 > 0
    /\ JsOr0(l3.processedCount) < MaxL3Processed
    /\ \E type \in D :
           \E maxPumps \in getRandomInt(effMin(type, l3.temperature),
                                        effMax(type, l3.temperature)) :
               LET r == resolveL3([c |-> l3, g |-> cash.l3], type, maxPumps)
               IN /\ l3' = r.c
                  /\ cash' = [cash EXCEPT !.l3 = r.g]
    /\ stored' = saveGameState(unlockedLevels, l1, l2, l3')
    /\ last' = [op |-> "l3Tick", k |-> 0]
    /\ UNCHANGED <<screen, unlockedLevels, l1, l2, dom, timers, now>>
    /\ UNCHANGED tutorial

\* One firing of the drift timeout (updateTemp, script.js 1337-1367): the
\* temperature moves and the next timeout is armed, its handle stored.
L3Drift(C) ==
    /\ timers.temp > 0
    /\ \E change \in C :
           /\ l3' = [l3 EXCEPT !.temperature = updateTemp(@, change)]
           /\ last' = [op |-> "l3Drift", k |-> clamped(l3.temperature, change),
                        insight |-> insightBand(updateTemp(l3.temperature, change))]
    /\ timers' = [timers EXCEPT !.temph = TRUE]
    /\ UNCHANGED <<screen, unlockedLevels, l1, l2, dom, stored, now, cash>>
    /\ UNCHANGED tutorial

\* resetL3Production with the confirm dialog accepted (script.js 1406-1477).
\* The strategy is set to the defaults and then read back from the sliders
\* (updateL3Strategy, line 1444) before the sliders are moved (1447-1450).
resetL3Strategy(sliders) == sliders
resetL3Production ==
    /\ screen = "level-3"
    /\ timers' = clearL3Temp(clearL3Interval(timers))
    /\ l3' = [l3 EXCEPT !.isRunning = FALSE,
                        !.totalScore = 0,
                        !.processedCount = 0,
                        !.temperature = 20,
                        !.stats = [c \in Colours |-> statsTemplate],
                        !.strategy = resetL3Strategy(dom.l3Slider)]
    /\ dom' = [dom EXCEPT !.l3Slider = DefaultStrategy]
    /\ cash' = [cash EXCEPT !.l3 = NoCash]
    /\ stored' = saveGameState(unlockedLevels, l1, l2, l3')
    /\ last' = [op |-> "resetL3Production", k |-> 0]
    /\ UNCHANGED <<screen, unlockedLevels, l1, l2, now>>
    /\ UNCHANGED tutorial

\* ------------------------------------------------------------ level 1
\* Thresholds the model draws for a level-1 balloon: the lowest value of
\* getRandomInt(...BALLOON_CONFIG[type].range).
L1Draws(type) ==
    {m \in getRandomInt(RangeMin(type), RangeMax(type)) : m <= RangeMin(type)}

\* Variant of addToL1History that appends and drops from the front.
appendToL1History(history, type, pumps, popped) ==
    LET h == history \o <<[type |-> type, pumps |-> pumps, popped |-> popped]>>
    IN IF Len(h) > 8 THEN SubSeq(h, 2, Len(h)) ELSE h
\* addToL1History: unshift, then pop when longer than 8.
addToL1History(history, type, pumps, popped) ==
    LET h == <<[type |-> type, pumps |-> pumps, popped |-> popped]>> \o history
    IN IF Len(h) > 8 THEN SubSeq(h, 1, Len(h) - 1) ELSE h

\* Variant of endLevel1Unlock that sets the unlocked level to 2.
endLevel1Relock(u) == 2
\* endLevel1() outside review: unlock level 2 and keep the best score.
endLevel1Unlock(u) == Max(u, 2)
\* Variant of endLevel1Best that stores every total.
endLevel1Latest(a) == [a EXCEPT !.bestScore = ScoreSum(a.stats)]
endLevel1Best(a) ==
    IF JsGt(ScoreSum(a.stats), JsOr0(a.bestScore))
    THEN [a EXCEPT !.bestScore = ScoreSum(a.stats)] ELSE a
\* isNewBest as endLevel1 computes it for the summary, after the best score
\* was updated (script.js 635-636).
isNewBest(a, isReview) == JsEq(ScoreSum(a.stats), a.bestScore) /\ ~isReview

\* setupNextL1Balloon while balloons remain (script.js 514-518).
armL1Balloon(a, maxPumps) ==
    [a EXCEPT !.isPopping = FALSE,
              !.currentBalloon = [type |-> L1_SEQUENCE[a.balloonIndex + 1],
                                  maxPumps |-> maxPumps],
              !.currentPumps = 0]

\* setupNextL1Balloon as a step from level-1 state a (balloonIndex already
\* advanced) with the document sv last saved by the caller.
setupNextL1Balloon(a, sv) ==
    IF a.balloonIndex >= Len(L1_SEQUENCE)
    THEN LET e == endLevel1Best([a EXCEPT !.isPopping = FALSE])
             u == endLevel1Unlock(unlockedLevels)
         IN /\ l1' = e
            /\ unlockedLevels' = u
            /\ stored' = saveGameState(u, e, l2, l3)
            /\ dom' = [dom EXCEPT !.l1Controls = FALSE,
                                  !.l1NewBest = isNewBest(e, FALSE)]
    ELSE /\ \E maxPumps \in L1Draws(L1_SEQUENCE[a.balloonIndex + 1]) :
                l1' = armL1Balloon(a, maxPumps)
         /\ stored' = sv
         /\ UNCHANGED <<unlockedLevels, dom>>

\* selectL1Btn click: startLevel1 (script.js 491-504).
SelectL1 ==
    /\ screen = "level-select"
    /\ screen' = "level-1"
    /\ IF l1.balloonIndex >= Len(L1_SEQUENCE)
       THEN /\ dom' = [dom EXCEPT !.l1Controls = FALSE,
                                  !.l1NewBest = isNewBest(l1, TRUE)]
            /\ UNCHANGED l1
       ELSE /\ dom' = [dom EXCEPT !.l1Controls = TRUE]
            /\ \E maxPumps \in L1Draws(L1_SEQUENCE[l1.balloonIndex + 1]) :
                   l1' = armL1Balloon(l1, maxPumps)
    /\ last' = [op |-> "startLevel1", k |-> 0]
    /\ UNCHANGED <<unlockedLevels, l2, l3, timers, stored, now, cash>>
    /\ UNCHANGED tutorial

\* Variant of ignoresClick that lets every click through.
ignoresClickNever(a) == FALSE
\* The early return of handleL1Pump and handleL1Bank (script.js 567, 589).
ignoresClick(a) == a.isPopping
\* l1PumpBtn or l1BankBtn click that the handler returns from at once.
L1ClickIgnored ==
    /\ screen = "level-1"
    /\ dom.l1Controls
    /\ ignoresClick(l1)
    /\ \E handler \in {"handleL1Pump", "handleL1Bank"} :
           last' = [op |-> handler, k |-> 1]
    /\ UNCHANGED <<screen, unlockedLevels, l1, l2, l3, dom, timers, stored, now, cash>>
    /\ UNCHANGED tutorial

\* handleL1Pop's synchronous part (script.js 607-613).
handleL1Pop(a) ==
    [a EXCEPT !.isPopping = TRUE,
              !.stats[a.currentBalloon.type].count = @ + 1,
              !.history = addToL1History(@, a.currentBalloon.type,
                                         a.currentBalloon.maxPumps, TRUE)]

\* l1PumpBtn click: handleL1Pump, popping the balloon when the pump count
\* passes its threshold. pol is the policy of the model's player: pol.play
\* balloons are played, cashing out at a pump count in pol.bank, and only the
\* first pol.risk balloons are pumped past those counts.
L1Pump(pol) ==
    /\ screen = "level-1"
    /\ dom.l1Controls
    /\ ~ignoresClick(l1)
    /\ l1.balloonIndex < pol.play
    /\ l1.balloonIndex < pol.risk \/ \E p \in pol.bank : l1.currentPumps < p
    /\ LET a == [l1 EXCEPT !.currentPumps = @ + 1]
       IN IF a.currentPumps > a.currentBalloon.maxPumps
          THEN /\ timers.l1pop < MaxPending
               /\ l1' = handleL1Pop(a)
               /\ stored' = saveGameState(unlockedLevels, l1', l2, l3)
               /\ timers' = [timers EXCEPT !.l1pop = @ + 1]
               /\ last' = [op |-> "handleL1Pop", k |-> 0]
          ELSE /\ l1' = a
               /\ last' = [op |-> "handleL1Pump", k |-> 0]
               /\ UNCHANGED <<stored, timers>>
    /\ UNCHANGED <<screen, unlockedLevels, l2, l3, dom, now, cash>>
    /\ UNCHANGED tutorial

\* handleL1Bank's bookkeeping (script.js 590-596).
handleL1Bank(a) ==
    LET type == a.currentBalloon.type
        pumps == a.currentPumps
    IN [a EXCEPT !.stats[type].score = @ + pumps,
                 !.stats[type].pumps = @ + pumps,
                 !.stats[type].count = @ + 1,
                 !.history = addToL1History(@, type, pumps, FALSE),
                 !.balloonIndex = @ + 1]

\* l1BankBtn click: handleL1Bank then setupNextL1Balloon.
L1Bank(pol) ==
    /\ screen = "level-1"
    /\ dom.l1Controls
    /\ ~ignoresClick(l1)
    /\ l1.balloonIndex < pol.play
    /\ l1.currentPumps \in pol.bank
    /\ LET a == handleL1Bank(l1)
       IN setupNextL1Balloon(a, saveGameState(unlockedLevels, a, l2, l3))
    /\ cash' = [cash EXCEPT !.l1[l1.currentBalloon.type] = @ + 1]
    /\ last' = [op |-> "handleL1Bank", k |-> 0]
    /\ UNCHANGED <<screen, l2, l3, timers, now>>
    /\ UNCHANGED tutorial

\* The timeout handleL1Pop arms (script.js 614): advance to the next balloon.
L1Advance ==
    /\ timers.l1pop > 0
    /\ timers' = [timers EXCEPT !.l1pop = @ - 1]
    /\ setupNextL1Balloon([l1 EXCEPT !.balloonIndex = @ + 1], stored)
    /\ last' = [op |-> "l1Advance", k |-> 0]
    /\ UNCHANGED <<screen, l2, l3, now, cash>>
    /\ UNCHANGED tutorial

\* Variant of resetStatsL1 that also forgets the best score.
resetStatsL1Best(a) ==
    [a EXCEPT !.stats = ZeroStats, !.history = <<>>, !.balloonIndex = 0,
              !.isPopping = FALSE, !.bestScore = 0]
\* resetStats('l1') (script.js 187-209).
resetStatsL1(a) ==
    [a EXCEPT !.stats = ZeroStats, !.history = <<>>, !.balloonIndex = 0,
              !.isPopping = FALSE]

\* l1-summary-replay-btn click: replayLevel1 (script.js 506-511).
replayLevel1 ==
    /\ screen = "level-1"
    /\ ~dom.l1Controls
    /\ tutorial' = [tutorial EXCEPT !.l1 = 0]
    /\ LET a == resetStatsL1(l1)
       IN /\ stored' = saveGameStateWith(tutorial', unlockedLevels, a, l2, l3)
          /\ \E maxPumps \in L1Draws(L1_SEQUENCE[1]) :
                 l1' = armL1Balloon(a, maxPumps)
    /\ dom' = [dom EXCEPT !.l1Controls = TRUE]
    /\ cash' = [cash EXCEPT !.l1 = NoCash]
    /\ last' = [op |-> "replayLevel1", k |-> 0]
    /\ UNCHANGED <<screen, unlockedLevels, l2, l3, timers, now>>

\* ------------------------------------------------------------ specifications
\* Colours and temperature changes the random draws range over, and the
\* level-1 player's policy, per specification.
DrawL2 == {"red"}
SkipColours == {"red", "blue"}
DrawHistory == {"red"}
DrawL3 == {"red"}
DrawGame == {"red"}
DriftL3 == {-5, 5}
DriftGame == {5}
\* Pauses and skips of one exploration of SpecL2.
MaxSavesRun == 2
\* Level-1 balloons on which the player risks a pop (SpecL1), and balloons
\* played at all (SpecGame).
L1Risky == 2
L1Played == 1
\* Page reloads of one exploration.
MaxReloads == 1
PolicyL1 == [bank |-> {1}, risk |-> L1Risky, play |-> Len(L1_SEQUENCE)]
PolicyGame == [bank |-> {1}, risk |-> 0, play |-> L1Played]
\* Every balloon of the sequence cashed out without a pump.
PolicyUnlock == [bank |-> {0}, risk |-> 0, play |-> Len(L1_SEQUENCE)]

\* Level 1 played to the end and replayed.
NextL1 ==
    \/ StartGame
    \/ HomeBtn
    \/ SelectL1
    \/ L1Pump(PolicyL1)
    \/ L1Bank(PolicyL1)
    \/ L1Advance
    \/ replayLevel1
SpecL1 == Init /\ [][NextL1]_vars

\* One playthrough of level 1 with re-entry from the menu and page reloads.
NextL1Reload ==
    \/ StartGame
    \/ HomeBtn
    \/ SelectL1
    \/ L1Pump(PolicyL1)
    \/ L1Bank(PolicyL1)
    \/ L1Advance
    \/ Reload(MaxReloads)
SpecL1Reload == Init /\ [][NextL1Reload]_vars

\* Level-2 runs: start, pause, ticks, skip-to-end, leaving by the home button.
NextL2 ==
    \/ StartGame
    \/ HomeBtn
    \/ SelectL2
    \/ L2Start
    \/ L2Pause(MaxSavesRun)
    \/ L2Tick(DrawL2)
    \/ skipL2ToEnd(DrawL2, MaxSavesRun)
    \/ L2SkipEnd
SpecL2 == Init /\ [][NextL2]_vars

\* Level-2 runs ended by ticking or by skip-to-end, over two colours.
NextL2Skip ==
    \/ StartGame
    \/ SelectL2
    \/ L2Start
    \/ L2Tick(SkipColours)
    \/ skipL2ToEnd(SkipColours, MaxSavesRun)
    \/ L2SkipEnd
SpecL2Skip == Init /\ [][NextL2Skip]_vars

\* The level-2 strategy history: saves by pause (before the first tick) and by
\* skip-to-end, slider moves, deletions and clear-all.
NextL2History ==
    \/ StartGame
    \/ SelectL2
    \/ L2Start
    \/ L2Pause(MaxClock)
    \/ skipL2ToEnd(DrawHistory, MaxClock)
    \/ L2SkipEnd
    \/ L2Slider
    \/ L2Delete
    \/ L2ClearAll
SpecL2History == Init /\ [][NextL2History]_vars

\* Level-3 production: sliders, start, pause, ticks, drift, production reset.
NextL3 ==
    \/ StartGame
    \/ HomeBtn
    \/ SelectL3
    \/ L3Slider
    \/ L3Start(DriftL3)
    \/ L3Pause
    \/ L3Tick(DrawL3)
    \/ L3Drift(DriftL3)
    \/ resetL3Production
SpecL3 == Init /\ [][NextL3]_vars

\* Level-3 production under every temperature change getRandomInt(-5, 5) can
\* return.
NextL3Temp ==
    \/ StartGame
    \/ SelectL3
    \/ L3Start(TempChanges)
    \/ L3Pause
    \/ L3Tick(DrawL3)
    \/ L3Drift(TempChanges)
SpecL3Temp == Init /\ [][NextL3Temp]_vars

\* The tutorial: help, next, previous and skip on the three levels.
NextTutorial ==
    \/ StartGame
    \/ HomeBtn
    \/ SelectL1
    \/ SelectL2
    \/ SelectL3
    \/ Help
    \/ TutorialStep
    \/ skipTutorial
SpecTutorial == Init /\ [][NextTutorial]_vars

\* The three levels together with the full reset.
NextGame ==
    \/ StartGame
    \/ HomeBtn
    \/ resetAllProgress
    \/ SelectL1
    \/ L1Pump(PolicyGame)
    \/ L1Bank(PolicyGame)
    \/ SelectL2
    \/ L2Start
    \/ L2Tick(DrawGame)
    \/ SelectL3
    \/ L3Start(DriftGame)
    \/ L3Tick(DrawGame)
SpecGame == Init /\ [][NextGame]_vars

\* The actions that unlock levels (level 1 played to its end, level-2 runs
\* ticked to their end) with replays, the level-3 reset and the full reset.
NextUnlock ==
    \/ StartGame
    \/ HomeBtn
    \/ resetAllProgress
    \/ SelectL1
    \/ L1Bank(PolicyUnlock)
    \/ replayLevel1
    \/ SelectL2
    \/ L2Start
    \/ L2Tick(DrawGame)
    \/ SelectL3
    \/ resetL3Production
SpecUnlock == Init /\ [][NextUnlock]_vars

\* Level 1 with a player who pumps any number of times up to one past the
\* red threshold, cashes out at any count, and clicks while a pop is shown.
PolicyClicks == [bank |-> 1 .. RangeMin("red") + 1, risk |-> 0, play |-> L1Risky]
NextL1Clicks ==
    \/ StartGame
    \/ HomeBtn
    \/ SelectL1
    \/ L1Pump(PolicyClicks)
    \/ L1Bank(PolicyClicks)
    \/ L1ClickIgnored
    \/ L1Advance
SpecL1Clicks == Init /\ [][NextL1Clicks]_vars

\* Level 3 production under every temperature the drift reaches.
NextL3Range ==
    \/ StartGame
    \/ SelectL3
    \/ L3Start(TempChanges)
    \/ L3Tick(DrawL3)
    \/ L3Drift(TempChanges)
SpecL3Range == Init /\ [][NextL3Range]_vars

\* Level 2 with its saved strategies: runs that are paused or skipped to the end (while
\* the clock is below MaxPauses) or complete, slider input, and
\* the delete and clear-all buttons of the list.
MaxPauses == 1
NextL2Records ==
    \/ StartGame
    \/ SelectL2
    \/ L2Start
    \/ L2Pause(MaxPauses)
    \/ L2Tick(DrawHistory)
    \/ skipL2ToEnd(DrawHistory, MaxPauses)
    \/ L2SkipEnd
    \/ L2Slider
    \/ L2Delete
    \/ L2ClearAll
SpecL2Records == Init /\ [][NextL2Records]_vars

\* Documents written by saveGameState: the one of a fresh game, and the one
\* saved when the first level-1 balloon is cashed out after three pumps.
DrawDocs ==
    LET a == handleL1Bank([armL1Balloon(DefaultL1, 6) EXCEPT !.currentPumps = 3])
    IN {saveGameStateWith(DefaultTutorial, 1, DefaultL1, DefaultL2, DefaultL3)[1],
        saveGameStateWith([DefaultTutorial EXCEPT !.l1 = 7], 1, a, DefaultL2, DefaultL3)[1]}
\* The fields a stored document may lack.
DrawMissing ==
    {"tutorial", "unlockedLevels", "l1", "l2", "l3", "l1.stats", "l2.stats",
     "l3.stats", "bestScore", "pastStrategies"}
Without(r, D) == [x \in DOMAIN r \ D |-> r[x]]
\* The document doc without the fields in M.
partialDoc(doc, M) ==
    LET sub(level, D) == Without(doc[level],
            {f \in D : f \in M} \cup (IF (level \o ".stats") \in M THEN {"stats"} ELSE {}))
        d == [doc EXCEPT !.l1 = sub("l1", {"bestScore"}),
                         !.l2 = sub("l2", {"pastStrategies"}),
                         !.l3 = sub("l3", {})]
    IN Without(d, M)
\* The page is opened on a stored document that lacks some fields.
InitLoad ==
    /\ screen = "main-menu"
    /\ unlockedLevels = 1
    /\ tutorial = DefaultTutorial
    /\ l1 = DefaultL1
    /\ l2 = DefaultL2
    /\ l3 = DefaultL3
    /\ dom = InitialDom
    /\ timers = NoTimers
    /\ \E doc \in DrawDocs, M \in SUBSET DrawMissing : stored = <<partialDoc(doc, M)>>
    /\ now = 0
    /\ cash = NoCashAll
    /\ last = [op |-> "init", k |-> 0]
NextLoad == Reload(MaxReloads)
SpecLoad == InitLoad /\ [][NextLoad]_vars

\* ------------------------------------------------------------ properties
Levels == {"l1", "l2", "l3"}
statsOf(level) == CASE level = "l1" -> l1.stats [] level = "l2" -> l2.stats
                    [] OTHER -> l3.stats
pastStrategies == l2.pastStrategies

\* C1: in every level and for every colour, stats[c].count equals
\* stats[c].pops plus the number of cash-outs of that colour since the stats
\* were last zeroed; every pop, a level-1 pop included, adds one to pops.
C1_CountIsPopsPlusCashOuts ==
    \A level \in Levels : \A c \in Colours :
        statsOf(level)[c].count = statsOf(level)[c].pops + cash[level][c]

\* The ColorStat the resolver is specified to leave for a balloon with
\* configured pumps p and drawn threshold maxPumps.
specifiedOutcome(stat, p, maxPumps) ==
    IF JsGt(p, maxPumps)
    THEN [stat EXCEPT !.pops = @ + 1, !.count = @ + 1]
    ELSE [stat EXCEPT !.score = JsAdd(@, p), !.pumps = JsAdd(@, p), !.count = @ + 1]

\* C2: every step that resolves one level-2 or level-3 balloon of colour c
\* leaves stats[c] as specified for some threshold of the colour's range: a
\* pop adds 1 to pops and leaves score and pumps, a cash-out adds the
\* configured pumps p to both score and pumps, and count grows by 1 either way.
C2_ResolverOutcome ==
    [][/\ \A c \in Colours :
            (/\ l2'.processedCount = l2.processedCount + 1
             /\ l2'.stats[c] # l2.stats[c])
            => \E maxPumps \in getRandomInt(RangeMin(c), RangeMax(c)) :
                   l2'.stats[c] = specifiedOutcome(l2.stats[c], l2.strategy[c], maxPumps)
       /\ \A c \in Colours :
            (/\ l3'.processedCount = JsOr0(l3.processedCount) + 1
             /\ l3'.stats[c] # l3.stats[c])
            => \E maxPumps \in getRandomInt(effMin(c, l3.temperature),
                                            effMax(c, l3.temperature)) :
                   l3'.stats[c] = specifiedOutcome(l3.stats[c], l3.strategy[c], maxPumps)
      ]_vars

\* The level-2 run is over: no interval is live and no end-of-run timeout is
\* pending.
L2RunEnded == timers.l2 = 0 /\ timers.l2end = 0

\* C3: once processedCount has reached the run length and the run has ended,
\* by ticks or by skip-to-end, level 3 is unlocked.
C3_UnlockedAtRunEnd ==
    (JsGe(l2.processedCount, L2_TOTAL) /\ L2RunEnded) => unlockedLevels >= 3

\* C4: when a level-2 run completes, by its last tick or by skip-to-end,
\* processedCount is exactly the run length and totalEarned equals the sum of
\* the four colours' scores.
C4_CompletedRunTotals ==
    last.op \in {"endLevel2", "skipL2ToEnd"}
    => /\ l2.processedCount = L2_TOTAL
       /\ JsEq(l2.totalEarned, ScoreSum(l2.stats))

\* C5: when resetAllProgress returns, unlockedLevels is 1, every ColorStat of
\* every level is zero, l3.temperature is 20, l1.balloonIndex is 0 and
\* l2.processedCount is 0.
C5_FullReset ==
    last.op = "resetAllProgress"
    => /\ unlockedLevels = 1
       /\ \A level \in Levels : \A c \in Colours : statsOf(level)[c] = statsTemplate
       /\ l3.temperature = 20
       /\ l1.balloonIndex = 0
       /\ l2.processedCount = 0
\* A full reset taken with all seven quantities off their defaults.
C5_Witness == last.op = "resetAllProgress" /\ last.k = 7

\* C6: when a confirmed resetL3Production returns, neither level-3 loop is
\* scheduled, isRunning is false, totalScore and processedCount are 0, the
\* temperature is 20, every l3 ColorStat is zero and l3.strategy is the
\* default strategy whatever the sliders held.
C6_ProductionReset ==
    last.op = "resetL3Production"
    => /\ timers.l3 = 0 /\ timers.temp = 0
       /\ ~l3.isRunning
       /\ l3.totalScore = 0
       /\ l3.processedCount = 0
       /\ l3.temperature = 20
       /\ \A c \in Colours : l3.stats[c] = statsTemplate
       /\ l3.strategy = DefaultStrategy

\* C7: while a level's simulation is stopped or its screen has been left, no
\* step other than the user's starting it again or a reset changes the
\* level's counters:
\* no level-2 tick, level-3 tick or temperature drift fires.
C7_NoCallbackWhenStopped ==
    [][last'.op \in {"resetAllProgress", "resetL3Production"} \/
       /\ ((screen # "level-2" \/ ~l2.isRunning) /\ l2'.isRunning = l2.isRunning)
          => (l2'.processedCount = l2.processedCount /\ l2'.stats = l2.stats)
       /\ ((screen # "level-3" \/ ~l3.isRunning) /\ l3'.isRunning = l3.isRunning)
          => (/\ l3'.processedCount = l3.processedCount
              /\ l3'.stats = l3.stats
              /\ l3'.temperature = l3.temperature)
      ]_vars

C9_PauseSnapshot ==
    last.op = "l2Pause"
    => /\ Len(pastStrategies) >= 1
       /\ pastStrategies[1].strategy = l2.strategy
       /\ pastStrategies[1].totalProcessed = l2.processedCount
       /\ \A c \in Colours :
              pastStrategies[1].performance[c].count = l2.stats[c].count
       /\ stored # <<>>
       /\ Len(stored[1].l2.pastStrategies) >= 1
       /\ stored[1].l2.pastStrategies[1] = JsonRecord(pastStrategies[1])
\* A pause taken after at least one balloon.
C9_Witness ==
    /\ last.op = "l2Pause"
    /\ l2.processedCount > 0
    /\ stored # <<>>
    /\ stored[1].l2.pastStrategies[1].totalProcessed = l2.processedCount

\* C10: pastStrategies never holds more than 3 records and is ordered newest
\* first; a save (pause or skip-to-end) puts the new record at index 0 in
\* front of the two newest of the records held before.
C10_HistoryBounded ==
    /\ [](/\ Len(pastStrategies) <= 3
          /\ \A i \in 1 .. Len(pastStrategies) - 1 :
                 pastStrategies[i].timestamp >= pastStrategies[i + 1].timestamp
          /\ last.op \in {"l2Pause", "skipL2ToEnd"}
             => (Len(pastStrategies) >= 1 /\ pastStrategies[1].timestamp = now))
    /\ [][now' # now
          => /\ Len(l2'.pastStrategies) = (IF Len(pastStrategies) < 3
                                         THEN Len(pastStrategies) + 1 ELSE 3)
             /\ \A i \in 2 .. Len(l2'.pastStrategies) :
                    l2'.pastStrategies[i] = pastStrategies[i - 1]
         ]_vars
\* A fourth save with three records held: the oldest record is gone.
C10_Witness ==
    /\ last.op \in {"l2Pause", "skipL2ToEnd"}
    /\ now = 4
    /\ Len(pastStrategies) = 3
    /\ pastStrategies[1].timestamp = 4
    /\ pastStrategies[3].timestamp = 2

\* C11: l1.history never holds more than 8 entries, and every resolved
\* level-1 balloon (cash-out or pop) puts exactly one entry for that balloon
\* at index 0 in front of the entries held before, the oldest being dropped
\* once 8 are held; nothing else but a replay changes the history.
C11_HistoryWindow ==
    /\ [](Len(l1.history) <= 8)
    /\ [][IF CountSum(l1'.stats) = CountSum(l1.stats) + 1
          THEN /\ Len(l1'.history) = (IF Len(l1.history) < 8
                                      THEN Len(l1.history) + 1 ELSE 8)
               /\ l1'.history[1].type = l1.currentBalloon.type
               /\ l1'.history[1].popped = (last'.op = "handleL1Pop")
               /\ \A i \in 2 .. Len(l1'.history) :
                      l1'.history[i] = l1.history[i - 1]
          ELSE l1'.history = l1.history \/ last'.op = "replayLevel1"
         ]_vars
\* Eight entries held after more than eight resolutions: the first outcome is
\* gone, the oldest one kept is a pop, the newest a cash-out.
C11_Witness ==
    /\ Len(l1.history) = 8
    /\ CountSum(l1.stats) > 8
    /\ l1.history[8].popped
    /\ ~l1.history[1].popped
\* A step in which endLevel1() runs outside review: a cash-out or the delayed
\* advance after a pop moves balloonIndex to the end of the sequence.
L1Completion ==
    /\ last'.op \in {"handleL1Bank", "l1Advance"}
    /\ l1'.balloonIndex # l1.balloonIndex
    /\ l1'.balloonIndex >= Len(L1_SEQUENCE)

\* C12: a non-review level-1 completion leaves bestScore at the maximum of the
\* bestScore held before and the sum of the per-colour scores; bestScore never
\* decreases across completions and replays, and changes only at a completion
\* whose total is strictly greater.
C12_BestScoreIsMax ==
    [][/\ L1Completion =>
            l1'.bestScore = Max(l1.bestScore, ScoreSum(l1'.stats))
       /\ l1'.bestScore >= l1.bestScore
       /\ l1'.bestScore # l1.bestScore =>
            L1Completion /\ ScoreSum(l1'.stats) > l1.bestScore
      ]_vars
\* A replayed level completed with a lower total than the best one kept.
C12_Witness ==
    /\ last.op \in {"handleL1Bank", "l1Advance"}
    /\ l1.balloonIndex >= Len(L1_SEQUENCE)
    /\ ~dom.l1Controls
    /\ l1.bestScore > ScoreSum(l1.stats)
    /\ ScoreSum(l1.stats) > 0

\* C13: on a non-review completion the "New Best Score!" flag is raised only
\* if the total strictly exceeds the bestScore stored before that completion
\* (a tie is not a new best), and opening the finished level for review never
\* raises it.
C13_TieIsNotNewBest ==
    [][/\ L1Completion /\ dom'.l1NewBest => ScoreSum(l1'.stats) > l1.bestScore
       /\ last'.op = "startLevel1" /\ l1.balloonIndex >= Len(L1_SEQUENCE)
            => ~dom'.l1NewBest
      ]_vars

\* C14: the temperature lies in [0, 40] in every reachable state, whatever
\* changes in -5..5 the drift steps drew from the default 20.
C14_TemperatureClamped == 0 <= l3.temperature /\ l3.temperature <= 40
\* A drift step whose change left [0, 40] and was clamped to the lower end.
C14_Witness ==
    /\ last.op = "l3Drift" /\ last.k = 1
    /\ l3.temperature = 0

\* C15: at the temperature of every reachable state the effective range of
\* every colour has a lower end of at least 1 and an upper end at least one
\* above it.
C15_EffectiveRange ==
    \A type \in Colours :
        /\ effMin(type, l3.temperature) >= 1
        /\ effMax(type, l3.temperature) >= effMin(type, l3.temperature) + 1
\* Balloons resolved at both ends of the temperature scale.
C15_Witness ==
    /\ last.op = "l3Tick"
    /\ l3.temperature \in {0, 40}
    /\ l3.processedCount = MaxL3Processed

\* C16: at temperature 20 every colour's effective range is its configured
\* range, and with strategy red = 8 a red balloon drawn from that range adds 8
\* to the red score and the total exactly when its threshold is at least 8,
\* and counts as a pop otherwise.
C16_NeutralTemperature ==
    l3.temperature = 20 /\ l3.strategy["red"] = 8 =>
        /\ \A type \in Colours :
               /\ effMin(type, 20) = RangeMin(type)
               /\ effMax(type, 20) = RangeMax(type)
        /\ \A maxPumps \in getRandomInt(effMin("red", l3.temperature),
                                        effMax("red", l3.temperature)) :
               LET r == resolveL3([c |-> l3, g |-> cash.l3], "red", maxPumps).c
               IN IF maxPumps >= 8
                  THEN /\ r.stats["red"].score = l3.stats["red"].score + 8
                       /\ r.totalScore = l3.totalScore + 8
                       /\ r.stats["red"].pops = l3.stats["red"].pops
                  ELSE /\ r.stats["red"].score = l3.stats["red"].score
                       /\ r.totalScore = l3.totalScore
                       /\ r.stats["red"].pops = l3.stats["red"].pops + 1
\* Both outcomes seen at temperature 20 with the default red strategy.
C16_Witness ==
    /\ last.op = "l3Tick"
    /\ l3.temperature = 20
    /\ l3.strategy["red"] = 8
    /\ l3.stats["red"].score = 8
    /\ l3.stats["red"].pops = 1

\* The draws (colour, threshold) the comparison of skip-to-end with ticking
\* ranges over: the colours of SpecL2Skip, each with the threshold equal to the default
\* strategy value (a cash-out) and the one below it (a pop).
DrawPairs ==
    UNION {{<<type, m>> : m \in {DefaultStrategy[type] - 1, DefaultStrategy[type]}} :
           type \in SkipColours}
\* The draws a skip-to-end step of SpecL2Skip can consume.
SkipDraws ==
    UNION {{<<type, m>> : m \in getRandomInt(RangeMin(type), RangeMax(type))} :
           type \in SkipColours}
\* The interval callback of level 2 fired once per draw, in order.
RECURSIVE ticksWith(_, _)
ticksWith(st, draws) ==
    IF draws = <<>> THEN st
    ELSE ticksWith(IF JsGe(st.b.processedCount, L2_TOTAL) THEN st
                   ELSE resolveL2(st, Head(draws)[1], Head(draws)[2]),
                   Tail(draws))
\* The loop of skipL2ToEnd consuming the given draws, in order.
RECURSIVE skipWith(_, _)
skipWith(st, draws) ==
    IF draws = <<>> THEN st
    ELSE skipWith(skipResolve(st, Head(draws)[1], Head(draws)[2]), Tail(draws))
sameL2Outcome(a, b) ==
    /\ a.stats = b.stats
    /\ a.processedCount = b.processedCount
    /\ a.totalEarned = b.totalEarned

\* C17: in every running level-2 state with k balloons processed, the loop of
\* skip-to-end and L2_TOTAL - k interval ticks consuming the same draws give
\* the same per-colour stats, processedCount and totalEarned; and what a
\* skip-to-end step leaves is what that many ticks leave for some draws.
C17_SkipEqualsTicks ==
    /\ [](l2.isRunning =>
            LET st == [b |-> l2, g |-> cash.l2]
                skipped == skipLoop({st}, L2_TOTAL - l2.processedCount, SkipColours)
            IN \A draws \in [1 .. L2_TOTAL - l2.processedCount -> DrawPairs] :
                   /\ sameL2Outcome(skipWith(st, draws).b, ticksWith(st, draws).b)
                   /\ skipWith(st, draws) \in skipped)
    /\ [][last'.op = "skipL2ToEnd" /\ now' # now =>
            \E draws \in [1 .. L2_TOTAL - l2.processedCount -> SkipDraws] :
                sameL2Outcome(l2', ticksWith([b |-> l2, g |-> cash.l2], draws).b)
         ]_vars
\* A skip-to-end taken after some balloons were ticked, with a cash-out.
C17_Witness ==
    /\ last.op = "skipL2ToEnd"
    /\ last.k > 0
    /\ last.k < L2_TOTAL
    /\ l2.processedCount = L2_TOTAL
    /\ l2.totalEarned > 0

\* C18: unlockedLevels is 1, 2 or 3 in every state and at least 2 while level
\* 1 stands completed; no step but the full reset lowers it, and the full
\* reset sets it to 1.
C18_UnlockedMonotonic ==
    /\ [](/\ unlockedLevels \in {1, 2, 3}
          /\ l1.balloonIndex >= Len(L1_SEQUENCE) => unlockedLevels >= 2)
    /\ [][/\ unlockedLevels' < unlockedLevels => last'.op = "resetAllProgress"
          /\ last'.op = "resetAllProgress" /\ last' # last => unlockedLevels' = 1
         ]_vars
\* Level 1 is completed (again) when level 3 is already unlocked.
C18_Witness ==
    /\ last.op = "handleL1Bank"
    /\ l1.balloonIndex = Len(L1_SEQUENCE)
    /\ ~dom.l1Controls
    /\ unlockedLevels = 3

\* C19: when level 1 has ended, every position of the sequence was resolved
\* exactly once: the counts are red 6, blue 6, green 3, yellow 0 and
\* balloonIndex is 15.
C19_EachPositionOnce ==
    ~dom.l1Controls /\ l1.balloonIndex >= Len(L1_SEQUENCE) =>
        /\ l1.balloonIndex = Len(L1_SEQUENCE)
        /\ l1.stats["red"].count = 6
        /\ l1.stats["blue"].count = 6
        /\ l1.stats["green"].count = 3
        /\ l1.stats["yellow"].count = 0

\* The stored document holds the progress gameState holds: balloonIndex, the
\* stats of the three levels, processedCount, totalScore and unlockedLevels,
\* as JSON writes them.
PersistedAgrees ==
    /\ stored # <<>>
    /\ stored[1].unlockedLevels = unlockedLevels
    /\ stored[1].l1.balloonIndex = l1.balloonIndex
    /\ stored[1].l1.stats = JsonStats(l1.stats)
    /\ stored[1].l2.stats = JsonStats(l2.stats)
    /\ stored[1].l3.stats = JsonStats(l3.stats)
    /\ stored[1].l2.processedCount = l2.processedCount
    /\ stored[1].l3.processedCount = l3.processedCount
    /\ stored[1].l3.totalScore = JsonNum(l3.totalScore)

\* C20: after a level-1 cash-out, a level-1 pop, its delayed advance, a
\* level-2 tick, a level-3 tick or the end of a level-2 run (a level-1
\* completion is part of a cash-out or an advance), the stored document agrees
\* with gameState on the progress fields.
C20_SavedAfterProgress ==
    last.op \in {"handleL1Bank", "handleL1Pop", "l1Advance",
                 "l2Tick", "l3Tick", "endLevel2"}
        => PersistedAgrees

\* C22: the stored document never holds a tutorial step index for l3.
C22_NoL3TutorialStored ==
    stored # <<>> => stored[1].tutorial["l3"] = Undefined

\* C21: after the page has loaded a stored document, initGame has completed
\* and every field the document lacked has its default value.
C21_PartialDocumentLoads ==
    last.op = "reload" =>
        LET doc == stored[1]
            lacks(level, f) == Has(doc, level) /\ ~Has(doc[level], f)
        IN /\ last.k = 0
           /\ ~Has(doc, "unlockedLevels") => unlockedLevels = 1
           /\ ~Has(doc, "tutorial") => tutorial = DefaultTutorial
           /\ lacks("l1", "bestScore") => l1.bestScore = 0
           /\ lacks("l2", "pastStrategies") => l2.pastStrategies = <<>>
           /\ lacks("l1", "stats") => l1.stats = ZeroStats
           /\ lacks("l2", "stats") => l2.stats = ZeroStats
           /\ lacks("l3", "stats") => l3.stats = ZeroStats

\* The temperatures of the eight insights, in the order of insightBand.
InsightBands ==
    <<36 .. 40, 31 .. 35, 26 .. 30, 0 .. 4, 5 .. 9, 10 .. 14, 15 .. 19, 20 .. 25>>
\* C23 (as amended): the thresholds 5/10/15/20/25/30/35 delimit eight bands
\* that partition [0,40]; a drift step emits the insight of the one band
\* that holds the new temperature, and eight insights are told apart.
C23_EightBands ==
    last.op \in {"l3Drift", "l3Start"} =>
        /\ last.insight \in 1 .. 8
        /\ l3.temperature \in InsightBands[last.insight]
        /\ \A t \in 0 .. 40 :
               Cardinality({i \in 1 .. 8 : t \in InsightBands[i]}) = 1
        /\ Cardinality({insightBand(t) : t \in 0 .. 40}) = 8
\* A drift step has emitted the insight of the band 15..19.
C23_Witness ==
    last.op = "l3Drift" /\ last.insight = 7 /\ l3.temperature = 15
\* C23 (as stated): a drift step tells exactly seven bands apart.
C23_SevenBands ==
    last.op \in {"l3Drift", "l3Start"} =>
        Cardinality({insightBand(t) : t \in 0 .. 40}) = 7

\* C24: a step leaves the saved strategy records as they are, or puts a new
\* record in front of them (dropping the oldest beyond three), or is a
\* delete, a clear-all or a full reset; slider input, ticks and the
\* resolutions of a skip never change a record.
C24_RecordsImmutable ==
    [][LET old == l2.pastStrategies
           new == l2'.pastStrategies
       IN \/ new = old
          \/ /\ Len(new) = (IF Len(old) < 3 THEN Len(old) + 1 ELSE 3)
             /\ Tail(new) = SubSeq(old, 1, Len(new) - 1)
             /\ last'.op \notin {"l2Slider", "l2Tick", "l2Start"}
          \/ /\ last'.op = "deleteL2Strategy"
             /\ \E index \in 0 .. Len(old) - 1 : new = deleteL2Strategy(old, index)
          \/ /\ last'.op \in {"clearAllL2Strategies", "resetAllProgress"}
             /\ new = <<>>]_vars
\* A slider was moved while the list held a record saved with the strategy of
\* before.
C24_Witness ==
    /\ last.op = "l2Slider"
    /\ Len(l2.pastStrategies) >= 1
    /\ l2.pastStrategies[1].strategy # l2.strategy
    /\ l2.pastStrategies[1].totalProcessed > 0

\* The draws of runL3Simulation at the given temperature that pop a balloon
\* pumped strategyPumps times, and all its draws.
l3Draws(type, temperature) ==
    getRandomInt(effMin(type, temperature), effMax(type, temperature))
popDraws(type, strategyPumps, temperature) ==
    {maxPumps \in l3Draws(type, temperature) : JsGt(strategyPumps, maxPumps)}
C26_TotalIsSum ==
    JsEq(l3.totalScore, ScoreSum(l3.stats))

\* C27: a step pops the level-1 balloon exactly when it is a pump that takes
\* currentPumps past maxPumps; a cash-out happens at currentPumps <= maxPumps;
\* and while isPopping holds, a pump or cash-out click changes no stats,
\* history, currentPumps or balloonIndex.
C27_PopOrCashOut ==
    [][LET pumped == /\ IsNum(l1.currentPumps)
                     /\ l1'.currentPumps = l1.currentPumps + 1
                     /\ l1'.balloonIndex = l1.balloonIndex
           popped == /\ l1'.isPopping
                     /\ CountSum(l1'.stats) = CountSum(l1.stats) + 1
           clicked == last'.op \in {"handleL1Pump", "handleL1Pop", "handleL1Bank"}
       IN /\ popped <=> (pumped /\ l1'.currentPumps > l1'.currentBalloon.maxPumps)
          /\ (last'.op = "handleL1Bank" /\ CountSum(l1'.stats) # CountSum(l1.stats))
                 => l1.currentPumps <= l1.currentBalloon.maxPumps
          /\ (l1.isPopping /\ clicked) =>
                 /\ l1'.stats = l1.stats
                 /\ l1'.history = l1.history
                 /\ l1'.currentPumps = l1.currentPumps
                 /\ l1'.balloonIndex = l1.balloonIndex]_vars
\* A cash-out click was ignored while the popped balloon, pumped past its
\* threshold, awaited the advance.
C27_Witness ==
    /\ last = [op |-> "handleL1Bank", k |-> 1]
    /\ l1.isPopping
    /\ l1.currentPumps > l1.currentBalloon.maxPumps
    /\ timers.l1pop > 0

\* C28: a step that changes l3.temperature is a drift step (the timeout, or
\* the first drift on Start) that moves it by at most 5, or a level-3 reset
\* or full reset that sets it to 20; production ticks, pauses and slider
\* input leave it as it is.
C28_BoundedWalk ==
    [][l3'.temperature # l3.temperature =>
          \/ /\ last'.op \in {"l3Drift", "l3Start"}
             /\ l3'.temperature - l3.temperature \in -5 .. 5
          \/ /\ last'.op \in {"resetL3Production", "resetAllProgress"}
             /\ l3'.temperature = 20]_vars
\* A production tick has run, at a temperature five below the neutral 20 that
\* a drift step reached, under a strategy set by slider input.
C28_Witness ==
    /\ last.op = "l3Tick"
    /\ l3.temperature = 15
    /\ l3.strategy["red"] = 9

\* C29: a selection on the level-select screen opens level 2 only with
\* unlockedLevels >= 2 and level 3 only with unlockedLevels >= 3.
C29_EnterOnlyUnlocked ==
    [][/\ (screen = "level-select" /\ screen' = "level-2") => unlockedLevels >= 2
       /\ (screen = "level-select" /\ screen' = "level-3") => unlockedLevels >= 3]_vars

\* C30: from the start click until the pause click or the completion, that is
\* while the interval of the run is live, no step changes l2.strategy.
C30_StrategyFixedInRun ==
    [][(timers.l2 > 0 /\ timers'.l2 > 0) => l2'.strategy = l2.strategy]_vars

\* C31: for each of levels 2 and 3, isRunning holds exactly when one
\* production interval of the level is live, and no level ever has two live
\* production intervals.
C31_RunningIffOneTimer ==
    /\ l2.isRunning <=> timers.l2 = 1
    /\ l3.isRunning <=> timers.l3 = 1
    /\ timers.l2 <= 1
    /\ timers.l3 <= 1

\* C32: every level-2 and level-3 tick reads a defined, non-negative integer
\* strategy value for the colour it resolves, and every stats[c].score,
\* l2.totalEarned (once set) and l3.totalScore is a non-negative integer in
\* every state.
C32_ScoresAreNaturals ==
    /\ [](/\ \A c \in Colours : l2.stats[c].score \in Nat /\ l3.stats[c].score \in Nat
          /\ l2.totalEarned \in Nat \cup {Undefined}
          /\ l3.totalScore \in Nat)
    /\ [][/\ last'.op = "l2Tick" =>
                \A c \in Colours :
                    l2'.stats[c].count # l2.stats[c].count => l2.strategy[c] \in Nat
          /\ last'.op = "l3Tick" =>
                \A c \in Colours :
                    l3'.stats[c].count # l3.stats[c].count => l3.strategy[c] \in Nat
         ]_vars

\* The counters of levels 2 and 3: runs ended by ticks or by skip-to-end,
\* production ticks, the level-3 reset and the full reset, with the home
\* button leaving a level while its loop runs. The first drift of a start
\* draws the change 0.
DriftCounts == {0}
NextCounts ==
    \/ StartGame
    \/ HomeBtn
    \/ resetAllProgress
    \/ SelectL2
    \/ L2Start
    \/ L2Tick(DrawGame)
    \/ skipL2ToEnd(DrawGame, MaxPauses)
    \/ L2SkipEnd
    \/ SelectL3
    \/ L3Start(DriftCounts)
    \/ L3Tick(DrawGame)
    \/ resetL3Production
SpecCounts == Init /\ [][NextCounts]_vars

\* C33: l2.processedCount equals the sum over the colours of l2.stats[c].count
\* and never exceeds the run length, and l3.processedCount (0 when unset)
\* equals the sum over the colours of l3.stats[c].count.
C33_ProcessedIsCountSum ==
    /\ l2.processedCount = CountSum(l2.stats)
    /\ l2.processedCount <= L2_TOTAL
    /\ JsOr0(l3.processedCount) = CountSum(l3.stats)
\* After a full reset taken while both loops ran, the level-2 run has been
\* ticked to its end and a level-3 tick has counted its first balloon from the
\* unset processedCount.
C33_Witness ==
    /\ last.op = "l3Tick"
    /\ ~l3.isRunning
    /\ l3.processedCount = 1
    /\ ~l2.isRunning
    /\ l2.processedCount = L2_TOTAL

\* A step in which the level-2 run ends: the interval of the run is live
\* before the step and no interval is live after it.
L2RunEnds == timers.l2 > 0 /\ timers'.l2 = 0
\* pastStrategies after the step is pastStrategies with one new record in
\* front, the oldest dropped beyond three.
OneRecordAdded ==
    /\ Len(l2'.pastStrategies) = (IF Len(pastStrategies) < 3
                                  THEN Len(pastStrategies) + 1 ELSE 3)
    /\ Tail(l2'.pastStrategies) = SubSeq(pastStrategies, 1, Len(l2'.pastStrategies) - 1)
    /\ l2'.pastStrategies[1].totalProcessed = l2'.processedCount

\* C34: the step that ends a level-2 run, be it the pause click, the
\* skip-to-end click or the tick at the full run length, adds exactly one
\* record for the run to pastStrategies, and no click after the run has ended
\* adds another: every other step of level 2 leaves pastStrategies as it is.
C34_OneRecordPerRun ==
    [][IF L2RunEnds THEN OneRecordAdded
       ELSE l2'.pastStrategies = pastStrategies]_vars

\* Level 1 played to its end, one pump per balloon, and replayed, with the
\* tutorials skipped and level-2 runs started and ticking to their end.
PolicyReplay == [bank |-> {1}, risk |-> 0, play |-> Len(L1_SEQUENCE)]
NextReplay ==
    \/ StartGame
    \/ HomeBtn
    \/ skipTutorial
    \/ SelectL1
    \/ L1Pump(PolicyReplay)
    \/ L1Bank(PolicyReplay)
    \/ replayLevel1
    \/ SelectL2
    \/ L2Start
    \/ L2Tick(DrawGame)
SpecReplay == Init /\ [][NextReplay]_vars

\* C35: the replay click on the level-1 summary leaves every l1 ColorStat
\* zero, the history empty, balloonIndex 0 and the l1 tutorial index 0, and
\* leaves l1.bestScore, unlockedLevels and the whole of l2 and l3 as they were.
C35_ReplayFrame ==
    [][(last'.op = "replayLevel1" /\ ~dom.l1Controls /\ dom'.l1Controls) =>
          /\ l1'.stats = ZeroStats
          /\ l1'.history = <<>>
          /\ l1'.balloonIndex = 0
          /\ tutorial'.l1 = 0
          /\ l1'.bestScore = l1.bestScore
          /\ unlockedLevels' = unlockedLevels
          /\ l2' = l2
          /\ l3' = l3
          /\ tutorial'.l2 = tutorial.l2 /\ tutorial'.l3 = tutorial.l3]_vars
\* Level 1 has just been replayed with a best score kept, level 3 unlocked by
\* a completed level-2 run and the level-2 tutorial skipped.
C35_Witness ==
    /\ last.op = "replayLevel1"
    /\ dom.l1Controls
    /\ l1.stats = ZeroStats
    /\ l1.balloonIndex = 0
    /\ l1.bestScore > 0
    /\ unlockedLevels = 3
    /\ l2.processedCount = L2_TOTAL
    /\ tutorial.l1 = 0
    /\ tutorial.l2 = TutorialSteps.l2

\* C36: on a level screen, whose tutorial showTutorialStep has been called
\* for, the level's step index is an integer from 0 to the number of steps
\* of that level's tutorial.
C36_TutorialIndexInRange ==
    screen \in LevelScreens =>
        tutorial[levelKey(screen)] \in 0 .. TutorialSteps[levelKey(screen)]
====
